---- MODULE Spec2Model ----
(***************************************************************************)
(* Model of the weather screen TabTwoScreen (src/app/(tabs)/weather.tsx).  *)
(*                                                                         *)
(* The screen owns five pieces of React state (weather, loading, error,    *)
(* city, inputCity) and three asynchronous flows that write them:          *)
(*   - the mount effect (initialize-default),                              *)
(*   - handleSearch -> fetchCoordsByCity -> fetchWeatherByCoords,          *)
(*   - handleLocateMe -> fetchWeatherByCoords.                             *)
(*                                                                         *)
(* JavaScript runs one job at a time: the code between two awaits runs to  *)
(* completion.  `running` is the flow whose synchronous code is executing  *)
(* (0 when the event loop is idle); a flow gives the thread back only at   *)
(* an await.  Each state-writing statement is one step, named after its    *)
(* source line, so that the order of the writes inside a job is visible.   *)
(* The continuation of an await on a call that has just returned (line 55 *)
(* after fetchWeatherByCoords returns) is a microtask: it runs in the same *)
(* job, before any other response is delivered.                            *)
(* An optional value (T | null) is modelled as a sequence of length <= 1.  *)
(***************************************************************************)
EXTENDS Integers, Sequences, FiniteSets, TLC

VARIABLES
    weather,    \* useState line 11: <<>> (null) or <<snapshot>>
    loading,    \* useState line 12
    error,      \* useState line 13: <<>> (null) or <<message>>
    city,       \* useState line 14
    inputCity,  \* useState line 15: the text field, a sequence of characters
    flows,      \* one record per handler/effect invocation
    running,    \* the invocation whose synchronous code is executing, 0 if none
    lastSettle  \* history: the invocation that last wrote weather or error as an outcome

pstate == <<weather, loading, error, city, inputCity>>
vars == <<weather, loading, error, city, inputCity, flows, running, lastSettle>>

(***************************************************************************)
(* Bounds of the model.                                                    *)
(***************************************************************************)
\* invocations (of the effect and of the two handlers) in a session
MaxFlows == 3
\* invocations in the short sessions of FewSpec and LiveSpec
FewFlows == 2

FlowIds == 1..MaxFlows

(***************************************************************************)
(* Program constants.  Coordinates are in hundredths of a degree.          *)
(***************************************************************************)
BerlinLat == 5252
BerlinLon == 1341

MsgWeatherFailed == "Failed to fetch weather"
MsgCoordsFailed == "Failed to fetch city coordinates"
MsgCityNotFound == "City not found"
MsgUnknown == "Unknown error"
MsgPermissionDenied == "Permission to access location was denied"
MsgNoLocation == "Could not get location"
YourLocation == "Your Location"

(***************************************************************************)
(* The environment: what the external services may answer.                 *)
(***************************************************************************)
\* what the text field may hold: nothing, a space, a name between spaces
Texts == { <<>>, <<" ">>, <<" ", "p", " ">> }

\* messages of a rejected promise (an Error whose message may be empty)
RejectMsgs == {"", "Network request failed"}
\* message of the TypeError raised by reading a property of undefined
MsgTypeError == "undefined is not an object"

\* geocoding candidates {name, latitude, longitude}
Candidates == { [name |-> "Paris", latitude |-> 4886, longitude |-> 235] }

\* device positions
Positions == { [latitude |-> 5991, longitude |-> 1075] }

\* reverse-geocoded place records; a field is <<>> (null), <<"">> or <<label>>
Places ==
    { [city |-> <<"Oslo">>, region |-> <<"Oslo">>, country |-> <<"Norway">>],
      [city |-> <<>>, region |-> <<"Oslo">>, country |-> <<"Norway">>],
      [city |-> <<"">>, region |-> <<>>, country |-> <<"Norway">>],
      [city |-> <<>>, region |-> <<"">>, country |-> <<>>] }

\* data.current_weather of a forecast body
CurrentWeathers == { [temperature |-> 18, windspeed |-> 9] }

PermissionStatuses == {"granted", "denied", "undetermined"}

(***************************************************************************)
(* Pure helpers.                                                           *)
(***************************************************************************)
IsWhitespace(c) == c = " "

RECURSIVE TrimStart(_)
TrimStart(s) ==
    IF s = <<>> THEN <<>>
    ELSE IF IsWhitespace(Head(s)) THEN TrimStart(Tail(s))
    ELSE s

RECURSIVE TrimEnd(_)
TrimEnd(s) ==
    IF s = <<>> THEN <<>>
    ELSE IF IsWhitespace(s[Len(s)]) THEN TrimEnd(SubSeq(s, 1, Len(s) - 1))
    ELSE s

\* String.prototype.trim
Trim(s) == TrimEnd(TrimStart(s))

\* the condition of line 71: a string is truthy iff it is not empty
SearchAcceptsNoTrim(text) == text # <<>>
SearchAccepts(text) == Trim(text) # <<>>

\* err.message || fallback
MessageOrFallback(msg, fallback) == fallback
MessageOr(msg, fallback) == IF msg = "" THEN fallback ELSE msg

\* a || b on optional strings: null and "" are falsy
Truthy(opt) == opt # <<>> /\ opt[1] # ""

\* line 99: place.city || place.region || place.country || 'Your Location'
PlaceLabelNoFallback(place) ==
    IF Truthy(place.city) THEN place.city[1]
    ELSE IF Truthy(place.region) THEN place.region[1]
    ELSE IF place.country # <<>> THEN place.country[1]
    ELSE ""
PlaceLabel(place) ==
    IF Truthy(place.city) THEN place.city[1]
    ELSE IF Truthy(place.region) THEN place.region[1]
    ELSE IF Truthy(place.country) THEN place.country[1]
    ELSE YourLocation

\* lines 28-33: the snapshot is stamped with the arguments of the call
SnapshotSwapped(cw, latitude, longitude) ==
    [temperature |-> cw.temperature, windspeed |-> cw.windspeed,
     latitude |-> longitude, longitude |-> latitude]
Snapshot(cw, latitude, longitude) ==
    [temperature |-> cw.temperature, windspeed |-> cw.windspeed,
     latitude |-> latitude, longitude |-> longitude]

(***************************************************************************)
(* Invocations.                                                            *)
(*   kind     "none" (slot unused), "init", "search", "locate"             *)
(*   pc       "idle", a source line "Lnn" (about to execute it), an await  *)
(*            "Lnnw" (suspended in the await of that line), or "done"      *)
(*   cityName, latitude, longitude, name, err, data, status, place:        *)
(*            locals; place (block-scoped, lines 97-99) is dropped after   *)
(*            line 99                                                      *)
(*   geocoded history: what the geocoding lookup answered: "rejected",     *)
(*            "notok" (response.ok false), "empty" (no candidate), "found" *)
(*   calls    history: the external calls the invocation has issued        *)
(*   outcome  history: the last outcome it wrote (weather or error)        *)
(*   peers    history: the flows that have been in flight during its life  *)
(*   city0    history: the value of city when it started, kept while the   *)
(*            flow has no peers                                            *)
(***************************************************************************)
NoOutcome == [weather |-> <<>>, error |-> <<>>]

NoFlow ==
    [kind |-> "none", pc |-> "idle", cityName |-> <<>>,
     latitude |-> 0, longitude |-> 0, name |-> "", err |-> "",
     data |-> <<>>, status |-> "", place |-> <<>>, geocoded |-> "", calls |-> {},
     outcome |-> NoOutcome, peers |-> {}, city0 |-> ""]

Started(f) == flows[f].kind # "none"
InFlight(f) == Started(f) /\ flows[f].pc # "done"
Idle == running = 0
Mounted == Started(1)

At(f, line) == running = f /\ flows[f].pc = line
Awaiting(f, line) == running = 0 /\ flows[f].pc = line

Free(f) == ~Started(f) /\ \A g \in FlowIds : g < f => Started(g)

Init ==
    /\ weather = <<>>
    /\ loading = FALSE
    /\ error = <<>>
    /\ city = ""
    /\ inputCity = <<>>
    /\ flows = [f \in FlowIds |-> NoFlow]
    /\ running = 0
    /\ lastSettle = 0

\* a new flow f starts: it and the flows in flight become peers
Peers(f) == {g \in FlowIds : g # f /\ InFlight(g)}
Overlap(fs, f) ==
    [g \in FlowIds |->
        IF g \in Peers(f)
        THEN [fs[g] EXCEPT !.peers = @ \cup {f}, !.city0 = ""] ELSE fs[g]]

(***************************************************************************)
(* useEffect(..., []) of lines 64-67: runs once, after the first render.   *)
(***************************************************************************)
Mount ==
    /\ Idle /\ ~Mounted
    /\ flows' = [flows EXCEPT ![1] = [NoFlow EXCEPT !.kind = "init", !.pc = "L65",
                                                    !.city0 = city]]
    /\ running' = 1
    /\ UNCHANGED <<pstate, lastSettle>>

\* line 65: setCity('Berlin'); line 66 calls fetchWeatherByCoords(52.52, 13.41)
L65NoCity(f) ==
    /\ At(f, "L65")
    /\ flows' = [flows EXCEPT ![f] = [@ EXCEPT !.pc = "L20",
                    !.latitude = BerlinLat, !.longitude = BerlinLon]]
    /\ UNCHANGED <<pstate, running, lastSettle>>
L65(f) ==
    /\ At(f, "L65")
    /\ city' = "Berlin"
    /\ flows' = [flows EXCEPT ![f] = [@ EXCEPT !.pc = "L20",
                    !.latitude = BerlinLat, !.longitude = BerlinLon]]
    /\ UNCHANGED <<weather, loading, error, inputCity, running, lastSettle>>

(***************************************************************************)
(* fetchWeatherByCoords, lines 18-39.                                      *)
(***************************************************************************)
L20Skip(f) ==
    /\ At(f, "L20")
    /\ flows' = [flows EXCEPT ![f].pc = "L21"]
    /\ UNCHANGED <<pstate, running, lastSettle>>
L20(f) ==
    /\ At(f, "L20")
    /\ loading' = TRUE
    /\ flows' = [flows EXCEPT ![f].pc = "L21"]
    /\ UNCHANGED <<weather, error, city, inputCity, running, lastSettle>>

L21(f) ==
    /\ At(f, "L21")
    /\ error' = <<>>
    /\ flows' = [flows EXCEPT ![f].pc = "L22"]
    /\ UNCHANGED <<weather, loading, city, inputCity, running, lastSettle>>

L22Keep(f) ==
    /\ At(f, "L22")
    /\ flows' = [flows EXCEPT ![f].pc = "L23"]
    /\ UNCHANGED <<pstate, running, lastSettle>>
L22(f) ==
    /\ At(f, "L22")
    /\ weather' = <<>>
    /\ flows' = [flows EXCEPT ![f].pc = "L23"]
    /\ UNCHANGED <<loading, error, city, inputCity, running, lastSettle>>

\* line 23: the forecast request is issued and the flow suspends
L23(f) ==
    /\ At(f, "L23")
    /\ flows' = [flows EXCEPT ![f] = [@ EXCEPT !.pc = "L23w",
                    !.calls = @ \cup {"forecast"}]]
    /\ running' = 0
    /\ UNCHANGED <<pstate, lastSettle>>

\* the await of line 23 settles; line 26 tests response.ok
ForecastResponse(f) ==
    /\ Awaiting(f, "L23w")
    /\ \/ \E m \in RejectMsgs :
            /\ flows' = [flows EXCEPT ![f] = [@ EXCEPT !.pc = "L35", !.err = m]]
            /\ running' = f
       \/ /\ flows' = [flows EXCEPT ![f] = [@ EXCEPT !.pc = "L35",
                                                      !.err = MsgWeatherFailed]]
          /\ running' = f
       \/ /\ flows' = [flows EXCEPT ![f].pc = "L27w"]
          /\ running' = 0
    /\ UNCHANGED <<pstate, lastSettle>>

\* the await of line 27 (response.json()) settles
ForecastBody(f) ==
    /\ Awaiting(f, "L27w")
    /\ \/ \E m \in RejectMsgs :
            flows' = [flows EXCEPT ![f] = [@ EXCEPT !.pc = "L35", !.err = m]]
       \/ \E d \in {<<>>} \cup {<<cw>> : cw \in CurrentWeathers} :
            flows' = [flows EXCEPT ![f] = [@ EXCEPT !.pc = "L28", !.data = d]]
    /\ running' = f
    /\ UNCHANGED <<pstate, lastSettle>>

\* lines 28-33: setWeather({...}); reading data.current_weather.temperature
\* throws a TypeError when current_weather is missing
L28Guarded(f) ==
    /\ At(f, "L28")
    /\ IF flows[f].data = <<>>
       THEN /\ flows' = [flows EXCEPT ![f] = [@ EXCEPT !.pc = "L35",
                                                       !.err = MsgTypeError]]
            /\ UNCHANGED <<weather, lastSettle>>
       ELSE IF \E g \in FlowIds : g > f /\ flows[g].calls # {}
       THEN /\ flows' = [flows EXCEPT ![f].pc = "L37"]
            /\ UNCHANGED <<weather, lastSettle>>
       ELSE LET snap == Snapshot(flows[f].data[1], flows[f].latitude,
                                 flows[f].longitude)
            IN /\ weather' = <<snap>>
               /\ flows' = [flows EXCEPT ![f] = [@ EXCEPT !.pc = "L37",
                               !.outcome = [weather |-> <<snap>>, error |-> <<>>]]]
               /\ lastSettle' = f
    /\ UNCHANGED <<loading, error, city, inputCity, running>>
L28(f) ==
    /\ At(f, "L28")
    /\ IF flows[f].data = <<>>
       THEN /\ flows' = [flows EXCEPT ![f] = [@ EXCEPT !.pc = "L35",
                                                       !.err = MsgTypeError]]
            /\ UNCHANGED <<weather, lastSettle>>
       ELSE LET snap == Snapshot(flows[f].data[1], flows[f].latitude,
                                 flows[f].longitude)
            IN /\ weather' = <<snap>>
               /\ flows' = [flows EXCEPT ![f] = [@ EXCEPT !.pc = "L37",
                               !.outcome = [weather |-> <<snap>>, error |-> <<>>]]]
               /\ lastSettle' = f
    /\ UNCHANGED <<loading, error, city, inputCity, running>>

\* line 35: setError(err.message || 'Unknown error')
L35Silent(f) ==
    /\ At(f, "L35")
    /\ flows' = [flows EXCEPT ![f].pc = "L37"]
    /\ UNCHANGED <<pstate, running, lastSettle>>
L35(f) ==
    /\ At(f, "L35")
    /\ LET msg == MessageOr(flows[f].err, MsgUnknown)
       IN /\ error' = <<msg>>
          /\ flows' = [flows EXCEPT ![f] = [@ EXCEPT !.pc = "L37",
                          !.outcome = [weather |-> <<>>, error |-> <<msg>>]]]
    /\ lastSettle' = f
    /\ UNCHANGED <<weather, loading, city, inputCity, running>>

\* where fetchWeatherByCoords returns to: the effect and handleLocateMe end
\* (line 106 is the last statement of its try block); fetchCoordsByCity
\* continues in its finally block, line 59, in the same job
AfterWeather(kind) == IF kind = "search" THEN "L59" ELSE "done"

\* line 37: finally { setLoading(false) }
L37Skip(f) ==
    /\ At(f, "L37")
    /\ flows' = [flows EXCEPT ![f].pc = AfterWeather(flows[f].kind)]
    /\ running' = IF flows[f].kind = "search" THEN f ELSE 0
    /\ UNCHANGED <<pstate, lastSettle>>
L37(f) ==
    /\ At(f, "L37")
    /\ loading' = FALSE
    /\ flows' = [flows EXCEPT ![f].pc = AfterWeather(flows[f].kind)]
    /\ running' = IF flows[f].kind = "search" THEN f ELSE 0
    /\ UNCHANGED <<weather, error, city, inputCity, lastSettle>>

(***************************************************************************)
(* The text field (line 132) and handleSearch, lines 70-74.                *)
(***************************************************************************)
ChangeText(text) ==
    /\ Idle /\ Mounted
    /\ inputCity' = text
    /\ UNCHANGED <<weather, loading, error, city, flows, running, lastSettle>>

\* the Search button or the keyboard's submit: handleSearch is invoked
PressSearch ==
    /\ Idle /\ Mounted
    /\ \E f \in FlowIds :
        /\ Free(f)
        /\ flows' = [flows EXCEPT ![f] = [NoFlow EXCEPT !.kind = "search",
                                                        !.pc = "L71"]]
        /\ running' = f
    /\ UNCHANGED <<pstate, lastSettle>>

\* lines 71-72: if (inputCity.trim()) fetchCoordsByCity(inputCity.trim())
L71(f) ==
    /\ At(f, "L71")
    /\ IF SearchAccepts(inputCity)
       THEN /\ flows' = [Overlap(flows, f) EXCEPT ![f] = [@ EXCEPT !.pc = "L44",
                            !.cityName = Trim(inputCity), !.peers = Peers(f),
                            !.city0 = IF Peers(f) = {} THEN city ELSE ""]]
            /\ UNCHANGED running
       ELSE /\ flows' = [flows EXCEPT ![f].pc = "done"]
            /\ running' = 0
    /\ UNCHANGED <<pstate, lastSettle>>

(***************************************************************************)
(* fetchCoordsByCity, lines 42-61.                                         *)
(***************************************************************************)
L44(f) ==
    /\ At(f, "L44")
    /\ loading' = TRUE
    /\ flows' = [flows EXCEPT ![f].pc = "L45"]
    /\ UNCHANGED <<weather, error, city, inputCity, running, lastSettle>>

L45(f) ==
    /\ At(f, "L45")
    /\ error' = <<>>
    /\ flows' = [flows EXCEPT ![f].pc = "L46"]
    /\ UNCHANGED <<weather, loading, city, inputCity, running, lastSettle>>

L46(f) ==
    /\ At(f, "L46")
    /\ weather' = <<>>
    /\ flows' = [flows EXCEPT ![f].pc = "L47"]
    /\ UNCHANGED <<loading, error, city, inputCity, running, lastSettle>>

\* line 47: the geocoding request is issued and the flow suspends
L47NoAwait(f) ==
    /\ At(f, "L47")
    /\ flows' = [flows EXCEPT ![f] = [@ EXCEPT !.pc = "L20",
                    !.calls = @ \cup {"geocode"}]]
    /\ UNCHANGED <<pstate, running, lastSettle>>
L47(f) ==
    /\ At(f, "L47")
    /\ flows' = [flows EXCEPT ![f] = [@ EXCEPT !.pc = "L47w",
                    !.calls = @ \cup {"geocode"}]]
    /\ running' = 0
    /\ UNCHANGED <<pstate, lastSettle>>

\* the await of line 47 settles; line 50 tests response.ok
GeocodeResponse(f) ==
    /\ Awaiting(f, "L47w")
    /\ \/ \E m \in RejectMsgs :
            /\ flows' = [flows EXCEPT ![f] = [@ EXCEPT !.pc = "L57", !.err = m,
                                                        !.geocoded = "rejected"]]
            /\ running' = f
       \/ /\ flows' = [flows EXCEPT ![f] = [@ EXCEPT !.pc = "L57",
                           !.err = MsgCoordsFailed, !.geocoded = "notok"]]
          /\ running' = f
       \/ /\ flows' = [flows EXCEPT ![f].pc = "L51w"]
          /\ running' = 0
    /\ UNCHANGED <<pstate, lastSettle>>

\* the await of line 51 settles; line 52 tests data.results (missing or
\* empty), line 53 takes the first candidate
GeocodeBody(f) ==
    /\ Awaiting(f, "L51w")
    /\ \/ \E m \in RejectMsgs :
            flows' = [flows EXCEPT ![f] = [@ EXCEPT !.pc = "L57", !.err = m,
                                                    !.geocoded = "rejected"]]
       \/ flows' = [flows EXCEPT ![f] = [@ EXCEPT !.pc = "L57",
                        !.err = MsgCityNotFound, !.geocoded = "empty"]]
       \/ \E c \in Candidates :
            flows' = [flows EXCEPT ![f] = [@ EXCEPT !.pc = "L54",
                         !.name = c.name, !.latitude = c.latitude,
                         !.longitude = c.longitude, !.geocoded = "found"]]
    /\ running' = f
    /\ UNCHANGED <<pstate, lastSettle>>

\* line 54: setCity(name); line 55 calls fetchWeatherByCoords(latitude, longitude)
L54(f) ==
    /\ At(f, "L54")
    /\ city' = flows[f].name
    /\ flows' = [flows EXCEPT ![f].pc = "L20"]
    /\ UNCHANGED <<weather, loading, error, inputCity, running, lastSettle>>

\* line 57: setError(err.message || 'Unknown error')
L57Silent(f) ==
    /\ At(f, "L57")
    /\ flows' = [flows EXCEPT ![f].pc = "L59"]
    /\ UNCHANGED <<pstate, running, lastSettle>>
L57(f) ==
    /\ At(f, "L57")
    /\ LET msg == MessageOr(flows[f].err, MsgUnknown)
       IN /\ error' = <<msg>>
          /\ flows' = [flows EXCEPT ![f] = [@ EXCEPT !.pc = "L59",
                          !.outcome = [weather |-> <<>>, error |-> <<msg>>]]]
    /\ lastSettle' = f
    /\ UNCHANGED <<weather, loading, city, inputCity, running>>

\* line 59: finally { setLoading(false) }
L59(f) ==
    /\ At(f, "L59")
    /\ loading' = FALSE
    /\ flows' = [flows EXCEPT ![f].pc = "done"]
    /\ running' = 0
    /\ UNCHANGED <<weather, error, city, inputCity, lastSettle>>

(***************************************************************************)
(* handleLocateMe, lines 77-111.                                           *)
(***************************************************************************)
PressLocate ==
    /\ Idle /\ Mounted
    /\ \E f \in FlowIds :
        /\ Free(f)
        /\ flows' = [Overlap(flows, f) EXCEPT ![f] = [NoFlow EXCEPT
                        !.kind = "locate", !.pc = "L79", !.peers = Peers(f),
                        !.city0 = IF Peers(f) = {} THEN city ELSE ""]]
        /\ running' = f
    /\ UNCHANGED <<pstate, lastSettle>>

L79(f) ==
    /\ At(f, "L79")
    /\ loading' = TRUE
    /\ flows' = [flows EXCEPT ![f].pc = "L80"]
    /\ UNCHANGED <<weather, error, city, inputCity, running, lastSettle>>

L80(f) ==
    /\ At(f, "L80")
    /\ error' = <<>>
    /\ flows' = [flows EXCEPT ![f].pc = "L81"]
    /\ UNCHANGED <<weather, loading, city, inputCity, running, lastSettle>>

L81(f) ==
    /\ At(f, "L81")
    /\ weather' = <<>>
    /\ flows' = [flows EXCEPT ![f].pc = "L82"]
    /\ UNCHANGED <<loading, error, city, inputCity, running, lastSettle>>

\* line 82: the permission request is issued and the flow suspends
L82(f) ==
    /\ At(f, "L82")
    /\ flows' = [flows EXCEPT ![f] = [@ EXCEPT !.pc = "L82w",
                    !.calls = @ \cup {"permission"}]]
    /\ running' = 0
    /\ UNCHANGED <<pstate, lastSettle>>

\* line 83: if (status !== 'granted')
PermissionRefusedOnlyDenied(status) == status = "denied"
PermissionRefused(status) == status # "granted"

\* the await of line 82 settles
PermissionResponse(f) ==
    /\ Awaiting(f, "L82w")
    /\ \/ \E m \in RejectMsgs :
            flows' = [flows EXCEPT ![f] = [@ EXCEPT !.pc = "L108", !.err = m]]
       \/ \E status \in PermissionStatuses :
            flows' = [flows EXCEPT ![f] = [@ EXCEPT !.status = status,
                         !.pc = IF PermissionRefused(status) THEN "L84" ELSE "L88"]]
    /\ running' = f
    /\ UNCHANGED <<pstate, lastSettle>>

\* line 84: setError('Permission to access location was denied')
L84(f) ==
    /\ At(f, "L84")
    /\ error' = <<MsgPermissionDenied>>
    /\ flows' = [flows EXCEPT ![f] = [@ EXCEPT !.pc = "L85",
                    !.outcome = [weather |-> <<>>, error |-> <<MsgPermissionDenied>>]]]
    /\ lastSettle' = f
    /\ UNCHANGED <<weather, loading, city, inputCity, running>>

\* lines 85-86: setLoading(false); return
L85Skip(f) ==
    /\ At(f, "L85")
    /\ flows' = [flows EXCEPT ![f].pc = "done"]
    /\ running' = 0
    /\ UNCHANGED <<pstate, lastSettle>>
L85(f) ==
    /\ At(f, "L85")
    /\ loading' = FALSE
    /\ flows' = [flows EXCEPT ![f].pc = "done"]
    /\ running' = 0
    /\ UNCHANGED <<weather, error, city, inputCity, lastSettle>>

\* line 88: the position read is issued and the flow suspends
L88(f) ==
    /\ At(f, "L88")
    /\ flows' = [flows EXCEPT ![f] = [@ EXCEPT !.pc = "L88w",
                    !.calls = @ \cup {"position"}]]
    /\ running' = 0
    /\ UNCHANGED <<pstate, lastSettle>>

\* the await of line 88 settles; location.coords is kept for lines 92-106
PositionResponse(f) ==
    /\ Awaiting(f, "L88w")
    /\ \/ \E m \in RejectMsgs :
            flows' = [flows EXCEPT ![f] = [@ EXCEPT !.pc = "L108", !.err = m]]
       \/ \E p \in Positions :
            flows' = [flows EXCEPT ![f] = [@ EXCEPT !.pc = "L92",
                         !.latitude = p.latitude, !.longitude = p.longitude]]
    /\ running' = f
    /\ UNCHANGED <<pstate, lastSettle>>

\* line 92: the reverse-geocode lookup is issued and the flow suspends
L92(f) ==
    /\ At(f, "L92")
    /\ flows' = [flows EXCEPT ![f] = [@ EXCEPT !.pc = "L92w",
                    !.calls = @ \cup {"reverse"}]]
    /\ running' = 0
    /\ UNCHANGED <<pstate, lastSettle>>

\* the await of line 92 settles: it throws (inner catch, line 104), returns
\* no record (line 101) or returns records (line 97 takes the first)
ReverseResponse(f) ==
    /\ Awaiting(f, "L92w")
    /\ \/ flows' = [flows EXCEPT ![f].pc = "L104"]
       \/ flows' = [flows EXCEPT ![f].pc = "L101"]
       \/ \E pl \in Places :
            flows' = [flows EXCEPT ![f] = [@ EXCEPT !.pc = "L99", !.place = <<pl>>]]
    /\ running' = f
    /\ UNCHANGED <<pstate, lastSettle>>

\* line 99: setCity(place.city || place.region || place.country || 'Your Location')
L99(f) ==
    /\ At(f, "L99")
    /\ city' = PlaceLabel(flows[f].place[1])
    /\ flows' = [flows EXCEPT ![f] = [@ EXCEPT !.pc = "L20", !.place = <<>>]]
    /\ UNCHANGED <<weather, loading, error, inputCity, running, lastSettle>>

\* line 101: setCity('Your Location')
L101(f) ==
    /\ At(f, "L101")
    /\ city' = YourLocation
    /\ flows' = [flows EXCEPT ![f].pc = "L20"]
    /\ UNCHANGED <<weather, loading, error, inputCity, running, lastSettle>>

\* line 104: catch { setCity('Your Location') }
L104(f) ==
    /\ At(f, "L104")
    /\ city' = YourLocation
    /\ flows' = [flows EXCEPT ![f].pc = "L20"]
    /\ UNCHANGED <<weather, loading, error, inputCity, running, lastSettle>>

\* line 108: setError(err.message || 'Could not get location')
L108Unknown(f) ==
    /\ At(f, "L108")
    /\ LET msg == MessageOr(flows[f].err, MsgUnknown)
       IN /\ error' = <<msg>>
          /\ flows' = [flows EXCEPT ![f] = [@ EXCEPT !.pc = "L109",
                          !.outcome = [weather |-> <<>>, error |-> <<msg>>]]]
    /\ lastSettle' = f
    /\ UNCHANGED <<weather, loading, city, inputCity, running>>
L108(f) ==
    /\ At(f, "L108")
    /\ LET msg == MessageOr(flows[f].err, MsgNoLocation)
       IN /\ error' = <<msg>>
          /\ flows' = [flows EXCEPT ![f] = [@ EXCEPT !.pc = "L109",
                          !.outcome = [weather |-> <<>>, error |-> <<msg>>]]]
    /\ lastSettle' = f
    /\ UNCHANGED <<weather, loading, city, inputCity, running>>

\* line 109: setLoading(false)
L109(f) ==
    /\ At(f, "L109")
    /\ loading' = FALSE
    /\ flows' = [flows EXCEPT ![f].pc = "done"]
    /\ running' = 0
    /\ UNCHANGED <<weather, error, city, inputCity, lastSettle>>

(***************************************************************************)
(* The render, lines 144-153: loading ? ... : error ? ... : weather ? ...  *)
(* : null.  A string is truthy iff it is not empty, an object always.      *)
(***************************************************************************)
Render ==
    IF loading THEN "loading"
    ELSE IF Truthy(error) THEN "error"
    ELSE IF weather # <<>> THEN "weather"
    ELSE "nothing"

Next ==
    \/ Mount
    \/ \E text \in Texts : ChangeText(text)
    \/ PressSearch
    \/ PressLocate
    \/ \E f \in FlowIds : L65(f)
    \/ \E f \in FlowIds : L71(f)
    \/ \E f \in FlowIds : L44(f)
    \/ \E f \in FlowIds : L45(f)
    \/ \E f \in FlowIds : L46(f)
    \/ \E f \in FlowIds : L47(f)
    \/ \E f \in FlowIds : GeocodeResponse(f)
    \/ \E f \in FlowIds : GeocodeBody(f)
    \/ \E f \in FlowIds : L54(f)
    \/ \E f \in FlowIds : L57(f)
    \/ \E f \in FlowIds : L59(f)
    \/ \E f \in FlowIds : L79(f)
    \/ \E f \in FlowIds : L80(f)
    \/ \E f \in FlowIds : L81(f)
    \/ \E f \in FlowIds : L82(f)
    \/ \E f \in FlowIds : PermissionResponse(f)
    \/ \E f \in FlowIds : L84(f)
    \/ \E f \in FlowIds : L85(f)
    \/ \E f \in FlowIds : L88(f)
    \/ \E f \in FlowIds : PositionResponse(f)
    \/ \E f \in FlowIds : L92(f)
    \/ \E f \in FlowIds : ReverseResponse(f)
    \/ \E f \in FlowIds : L99(f)
    \/ \E f \in FlowIds : L101(f)
    \/ \E f \in FlowIds : L104(f)
    \/ \E f \in FlowIds : L108(f)
    \/ \E f \in FlowIds : L109(f)
    \/ \E f \in FlowIds : L20(f)
    \/ \E f \in FlowIds : L21(f)
    \/ \E f \in FlowIds : L22(f)
    \/ \E f \in FlowIds : L23(f)
    \/ \E f \in FlowIds : ForecastResponse(f)
    \/ \E f \in FlowIds : ForecastBody(f)
    \/ \E f \in FlowIds : L28(f)
    \/ \E f \in FlowIds : L35(f)
    \/ \E f \in FlowIds : L37(f)

Spec == Init /\ [][Next]_vars

(***************************************************************************)
(* Step(f): the steps of invocation f.  The event loop runs every job that *)
(* is ready, and for liveness every external call is assumed to settle:    *)
(* each step of a started flow is weakly fair.  User events (typing,       *)
(* pressing a button) are not.                                             *)
(***************************************************************************)
Step(f) ==
    \/ L65(f) \/ L71(f)
    \/ L20(f) \/ L21(f) \/ L22(f) \/ L23(f)
    \/ ForecastResponse(f) \/ ForecastBody(f)
    \/ L28(f) \/ L35(f) \/ L37(f)
    \/ L44(f) \/ L45(f) \/ L46(f) \/ L47(f)
    \/ GeocodeResponse(f) \/ GeocodeBody(f)
    \/ L54(f) \/ L57(f) \/ L59(f)
    \/ L79(f) \/ L80(f) \/ L81(f) \/ L82(f)
    \/ PermissionResponse(f) \/ L84(f) \/ L85(f)
    \/ L88(f) \/ PositionResponse(f) \/ L92(f) \/ ReverseResponse(f)
    \/ L99(f) \/ L101(f) \/ L104(f) \/ L108(f) \/ L109(f)

\* the sessions with at most FewFlows invocations
FewLimit == \A f \in FlowIds : f > FewFlows => flows'[f] = NoFlow
FewNext ==
    \/ Mount
    \/ \E text \in Texts : ChangeText(text)
    \/ PressSearch /\ FewLimit
    \/ PressLocate /\ FewLimit
    \/ \E f \in FlowIds : Step(f)

FewSpec == Init /\ [][FewNext]_vars

\* the steps of the effect and of a search (lines 18-74)
SearchStep(f) ==
    \/ L65(f) \/ L71(f)
    \/ L20(f) \/ L21(f) \/ L22(f) \/ L23(f)
    \/ ForecastResponse(f) \/ ForecastBody(f)
    \/ L28(f) \/ L35(f) \/ L37(f)
    \/ L44(f) \/ L45(f) \/ L46(f) \/ L47(f)
    \/ GeocodeResponse(f) \/ GeocodeBody(f)
    \/ L54(f) \/ L57(f) \/ L59(f)

\* the short sessions in which 'Locate Me' is not pressed
SearchNext ==
    \/ Mount
    \/ \E text \in Texts : ChangeText(text)
    \/ PressSearch /\ FewLimit
    \/ \E f \in FlowIds : SearchStep(f)

LiveSpec ==
    Init /\ [][SearchNext]_vars /\ \A f \in FlowIds : WF_vars(SearchStep(f))

(***************************************************************************)
(* Vocabulary of the claims.                                               *)
(***************************************************************************)
Done(f) == flows[f].pc = "done"
Quiescent == running = 0 /\ \A f \in FlowIds : ~InFlight(f)

Solo(f) == flows[f].peers = {}
\* an invocation that became a flow (a search with a blank text does not)
RealFlow(f) ==
    \/ flows[f].kind \in {"init", "locate"}
    \/ flows[f].kind = "search" /\ flows[f].cityName # <<>>
\* the step in which invocation f ends
Ends(f) == flows[f].pc # "done" /\ flows'[f].pc = "done"
\* a text that is empty or made of whitespace only
Blank(text) == \A i \in 1..Len(text) : text[i] = " "

\* the snapshot expected of flow f: what the forecast lookup returned to it,
\* at the coordinate it resolved
OwnSnapshot(f) ==
    [temperature |-> flows[f].data[1].temperature,
     windspeed |-> flows[f].data[1].windspeed,
     latitude |-> flows[f].latitude,
     longitude |-> flows[f].longitude]

\* C1: a search whose name the geocoding lookup has resolved (line 53 reached)
\* eventually ends with loading = false and either weather equal to the
\* forecast result stamped with the resolved coordinate, or error present
SearchSettled(f) ==
    /\ Done(f)
    /\ loading = FALSE
    /\ \/ error # <<>>
       \/ /\ flows[f].data # <<>>
          /\ weather = <<OwnSnapshot(f)>>
          /\ \E c \in Candidates :
                /\ flows[f].latitude = c.latitude
                /\ flows[f].longitude = c.longitude
C1_SearchEventuallySettles ==
    \A f \in FlowIds :
        (flows[f].kind = "search" /\ flows[f].geocoded = "found"
            /\ flows[f].pc = "L54") ~> SearchSettled(f)
C1_Witness ==
    \E f \in FlowIds :
        /\ flows[f].kind = "search" /\ flows[f].geocoded = "found"
        /\ SearchSettled(f)
        /\ error = <<>>
        /\ flows[f].peers # {}

\* C2: handleSearch invoked while inputCity is empty or whitespace-only
\* changes no field of the presentation state and issues no request: the
\* invocation ends at once, having made no call, and no other flow is touched
C2_BlankSearchIsNoOp ==
    [][\A f \in FlowIds :
        (At(f, "L71") /\ Blank(inputCity)) =>
            /\ pstate' = pstate
            /\ flows'[f].calls = {}
            /\ flows' = [flows EXCEPT ![f].pc = "done"]]_vars
C2_Witness ==
    \E f \in FlowIds :
        /\ flows[f].kind = "search" /\ Done(f)
        /\ flows[f].cityName = <<>> /\ flows[f].calls = {}
        /\ inputCity = <<" ">>
        /\ Quiescent /\ weather # <<>>

\* C3: a locate-device flow whose permission request answered anything but
\* granted ends with error = the denial message and loading = false, having
\* issued no call but the permission request; it does not write weather,
\* which is absent when no other flow overlapped
C3_DeniedLocate ==
    [][\A f \in FlowIds :
        (flows[f].kind = "locate"
            /\ flows[f].status \in PermissionStatuses \ {"granted"}
            /\ Ends(f)) =>
            /\ error' = <<"Permission to access location was denied">>
            /\ loading' = FALSE
            /\ flows'[f].calls = {"permission"}
            /\ weather' = weather
            /\ (Solo(f) => weather' = <<>>)]_vars
C3_Witness ==
    \E f \in FlowIds :
        /\ flows[f].kind = "locate" /\ Done(f)
        /\ flows[f].status = "undetermined"
        /\ error = <<"Permission to access location was denied">>
        /\ loading = FALSE /\ weather = <<>>

\* the label line 99 is meant to yield: the first of city, region, country
\* that is neither null nor empty, else the fallback literal
FirstLabel(place) ==
    LET fields == <<place.city, place.region, place.country>>
        named == {i \in 1..3 : fields[i] # <<>> /\ fields[i][1] # ""}
    IN IF named = {} THEN "Your Location"
       ELSE fields[CHOOSE i \in named : \A j \in named : i <= j][1]

\* C4: whatever the reverse-geocode lookup did (threw, returned no record,
\* returned a record with or without names), the flow sets city to a
\* non-empty label (first of city, region, country, else "Your Location"),
\* leaves error alone and enters fetchWeatherByCoords with the device
\* coordinate, for which it then issues the forecast request
C4_ReverseNeverFails ==
    [][\A f \in FlowIds :
        /\ (running = f /\ flows[f].pc \in {"L99", "L101", "L104"}) =>
            /\ city' # ""
            /\ city' = IF flows[f].pc = "L99" THEN FirstLabel(flows[f].place[1])
                       ELSE "Your Location"
            /\ error' = error
            /\ flows'[f].pc = "L20"
            /\ [latitude |-> flows'[f].latitude,
                longitude |-> flows'[f].longitude] \in Positions
        /\ (running = f /\ flows[f].kind = "locate" /\ flows[f].pc = "L23") =>
            /\ "reverse" \in flows[f].calls
            /\ "forecast" \in flows'[f].calls
            /\ [latitude |-> flows'[f].latitude,
                longitude |-> flows'[f].longitude] \in Positions]_vars
C4_Witness ==
    \E f \in FlowIds :
        /\ flows[f].kind = "locate" /\ flows[f].pc = "L23w"
        /\ "reverse" \in flows[f].calls
        /\ city = "Your Location"
        /\ error = <<>>

\* C5: a search whose geocoding lookup returned no candidate ends with
\* error = "City not found" (with "Failed to fetch city coordinates" when the
\* response was not a success), loading = false and no forecast request; when
\* no other flow overlapped, weather is absent and city is what it was before
C5_GeocodeFailure ==
    [][\A f \in FlowIds :
        (flows[f].kind = "search" /\ flows[f].geocoded \in {"empty", "notok"}
            /\ Ends(f)) =>
            /\ error' = IF flows[f].geocoded = "empty"
                        THEN <<"City not found">>
                        ELSE <<"Failed to fetch city coordinates">>
            /\ loading' = FALSE
            /\ flows'[f].calls = {"geocode"}
            /\ (Solo(f) => weather' = <<>> /\ city' = flows[f].city0)]_vars
C5_Witness ==
    \E f \in FlowIds :
        /\ flows[f].kind = "search" /\ Done(f) /\ Solo(f)
        /\ flows[f].geocoded = "empty"
        /\ error = <<"City not found">>
        /\ city = "Berlin" /\ flows[f].city0 = "Berlin"
        /\ weather = <<>> /\ loading = FALSE

\* C6: a search whose geocoding lookup returned a candidate and whose
\* forecast lookup returned a body ends with weather = {temperature,
\* windspeed} of that body stamped with the candidate's coordinate and
\* loading = false; when no other flow overlapped, city is the candidate's
\* name and error is absent
C6_SearchSuccess ==
    [][\A f \in FlowIds :
        (flows[f].kind = "search" /\ flows[f].geocoded = "found"
            /\ flows[f].data # <<>> /\ Ends(f)) =>
            /\ [name |-> flows[f].name, latitude |-> flows[f].latitude,
                longitude |-> flows[f].longitude] \in Candidates
            /\ weather' = <<OwnSnapshot(f)>>
            /\ loading' = FALSE
            /\ (Solo(f) => city' = flows[f].name /\ error' = <<>>)]_vars
C6_Witness ==
    \E f \in FlowIds :
        /\ flows[f].kind = "search" /\ Done(f) /\ Solo(f)
        /\ city = "Paris"
        /\ weather = <<[temperature |-> 18, windspeed |-> 9,
                        latitude |-> 4886, longitude |-> 235]>>
        /\ loading = FALSE /\ error = <<>>

\* C7: while initialize-default is the only flow, city is "Berlin" from line
\* 65 on, before the forecast lookup returns and whatever it returns; when
\* the lookup returns a body, the flow ends with weather at 52.52 / 13.41,
\* loading = false and error absent
OnlyInit == \A g \in FlowIds \ {1} : ~RealFlow(g)
C7_InitializeDefault ==
    /\ flows[1].kind \in {"none", "init"}
    /\ \A g \in FlowIds \ {1} : flows[g].kind # "init"
    /\ (Started(1) /\ flows[1].pc # "L65" /\ OnlyInit) => city = "Berlin"
    /\ (Done(1) /\ OnlyInit /\ flows[1].data # <<>>) =>
            /\ weather = <<[temperature |-> flows[1].data[1].temperature,
                            windspeed |-> flows[1].data[1].windspeed,
                            latitude |-> 5252, longitude |-> 1341]>>
            /\ loading = FALSE
            /\ error = <<>>
C7_Witness ==
    /\ Done(1) /\ OnlyInit /\ flows[1].data # <<>>
    /\ city = "Berlin" /\ weather # <<>>
C7_WitnessFailure ==
    /\ Done(1) /\ OnlyInit /\ flows[1].outcome.error # <<>>
    /\ city = "Berlin"

\* C8 (as claimed): two searches of the same name, which geocoding resolves
\* for both, the second started while the first was in flight and no other
\* flow overlapping either; once both have ended, loading = false and
\* exactly one of weather / error is present, and it is what the second
\* invocation wrote
C8_TwoSearchesSettle ==
    \A f, g \in FlowIds :
        (/\ f < g
         /\ flows[f].kind = "search" /\ flows[g].kind = "search"
         /\ flows[f].cityName # <<>> /\ flows[f].cityName = flows[g].cityName
         /\ flows[f].geocoded = "found" /\ flows[g].geocoded = "found"
         /\ flows[f].peers = {g} /\ flows[g].peers = {f}
         /\ \A h \in FlowIds \ {f, g} : RealFlow(h) => h < f
         /\ Quiescent) =>
            /\ loading = FALSE
            /\ (weather = <<>>) # (error = <<>>)
            /\ weather = flows[g].outcome.weather
            /\ error = flows[g].outcome.error

\* C9: whenever no invocation is in flight, loading = false
C9_LoadingNeverSticks == Quiescent => loading = FALSE
C9_Witness ==
    /\ Quiescent
    /\ loading = FALSE
    /\ \E f, g \in FlowIds :
        /\ g \in flows[f].peers
        /\ flows[f].outcome.error # <<>>
        /\ flows[g].outcome.weather # <<>>

\* what the render of lines 144-153 shows once loading is false: the error
\* if there is one, else the weather
Shown ==
    IF error # <<>> THEN [weather |-> <<>>, error |-> error]
    ELSE [weather |-> weather, error |-> <<>>]

\* C10 (as claimed): once every flow has ended, what is shown is the outcome
\* written by the flow that settled last
C10_LastSettleWins ==
    (Quiescent /\ lastSettle # 0) => Shown = flows[lastSettle].outcome

\* the pcs of a flow suspended in an await (lines 23, 27, 47, 51, 82, 88, 92)
AwaitPcs == {"L23w", "L27w", "L47w", "L51w", "L82w", "L88w", "L92w"}
Suspended(f) == flows[f].pc \in AwaitPcs

\* C11: in every state between two jobs (the event loop is idle, so the state
\* is one a render can observe), loading = true implies that weather and
\* error are both absent, whatever flows overlap
C11_LoadingShowsNothingStale ==
    (running = 0 /\ loading = TRUE) => (weather = <<>> /\ error = <<>>)
C11_Witness ==
    /\ running = 0 /\ loading = TRUE
    /\ weather = <<>> /\ error = <<>>
    /\ \E f, g \in FlowIds :
        /\ g \in flows[f].peers
        /\ flows[f].kind = "search" /\ flows[f].pc = "L23w"
        /\ Done(g) /\ flows[g].outcome.weather # <<>>

\* how many of loading = true, error present, weather present hold
Present ==
    (IF loading THEN 1 ELSE 0) + (IF error # <<>> THEN 1 ELSE 0)
        + (IF weather # <<>> THEN 1 ELSE 0)

\* C12 (as claimed): at most one of loading = true, error present, weather
\* present holds, in particular error and weather are never both present;
\* stated for the states between two jobs, the ones a render can observe
C12_AtMostOnePresent == running = 0 => Present <= 1

\* the lines of the Start step of flow f: lines 44-47, lines 79-82, and for
\* initialize-default lines 65-66 and 20-23
InStart(f) ==
    \/ flows[f].pc \in {"L44", "L45", "L46", "L47", "L79", "L80", "L81", "L82"}
    \/ flows[f].kind = "init" /\ flows[f].pc \in {"L65", "L20", "L21", "L22", "L23"}

\* C13: within one flow the steps come in the order Start, Resolve, Fetch,
\* Settle.  No call is issued before the Start has run; the forecast request
\* of a search is issued only after its geocoding lookup has returned a
\* candidate, and with that candidate's coordinate; the position is read only
\* after permission was granted, the reverse lookup is issued only after the
\* position has been read, and the forecast request of a locate flow only
\* after all three, with the device coordinate; a flow writes weather only
\* after its forecast lookup has returned a body and error only after one of
\* its calls has returned; and once it has written its outcome it awaits
\* nothing more
C13_StepsInOrder ==
    \A f \in FlowIds :
        LET fl == flows[f]
            at == [latitude |-> fl.latitude, longitude |-> fl.longitude]
        IN /\ InStart(f) => fl.calls = {} /\ fl.outcome = NoOutcome
           /\ ("forecast" \in fl.calls /\ fl.kind = "search") =>
                /\ "geocode" \in fl.calls /\ fl.geocoded = "found"
                /\ \E c \in Candidates :
                      c.latitude = at.latitude /\ c.longitude = at.longitude
           /\ "position" \in fl.calls =>
                "permission" \in fl.calls /\ fl.status = "granted"
           /\ "reverse" \in fl.calls =>
                "position" \in fl.calls /\ at \in Positions
           /\ ("forecast" \in fl.calls /\ fl.kind = "locate") =>
                "reverse" \in fl.calls /\ at \in Positions
           /\ fl.outcome.weather # <<>> =>
                "forecast" \in fl.calls /\ fl.data # <<>>
           /\ fl.outcome.error # <<>> => fl.calls # {}
           /\ fl.outcome # NoOutcome => ~Suspended(f)
C13_Witness ==
    \E f \in FlowIds :
        /\ flows[f].kind = "locate" /\ Done(f) /\ flows[f].peers # {}
        /\ flows[f].calls = {"permission", "position", "reverse", "forecast"}
        /\ flows[f].status = "granted"
        /\ flows[f].outcome.weather # <<>>

\* the flow whose job is executing stands right after the first, the second
\* or the third statement of a Start (lines 20-22, 44-46, 79-81)
AfterFirst(f) == running = f /\ flows[f].pc \in {"L21", "L45", "L80"}
AfterSecond(f) == running = f /\ flows[f].pc \in {"L22", "L46", "L81"}
AfterThird(f) == running = f /\ flows[f].pc \in {"L23", "L47", "L82"}

\* C14 (as claimed): inside a Start, weather and error have been cleared by
\* the time loading is true: no state between the statements of a Start has
\* loading = true together with a weather or an error
C14_ClearedBeforeLoading ==
    \A f \in FlowIds :
        (AfterFirst(f) \/ AfterSecond(f) \/ AfterThird(f)) =>
            (loading = TRUE => (weather = <<>> /\ error = <<>>))

\* C14 (amended): a Start raises loading first, then clears error, then
\* clears weather, all in one job: loading is true after its first
\* statement, error is absent as well after its second, and weather too
\* after its third, before the flow's next await
C14_LoadingRaisedFirst ==
    \A f \in FlowIds :
        /\ AfterFirst(f) => loading = TRUE
        /\ AfterSecond(f) => (loading = TRUE /\ error = <<>>)
        /\ AfterThird(f) => (loading = TRUE /\ error = <<>> /\ weather = <<>>)
C14_Witness ==
    \E f \in FlowIds :
        /\ AfterSecond(f) /\ flows[f].pc = "L46"
        /\ loading = TRUE /\ error = <<>> /\ weather # <<>>

\* a locate flow whose permission was granted and whose position read failed:
\* it stands in the catch block having issued the position read but no
\* reverse lookup
PositionFailed(f) ==
    /\ flows[f].kind = "locate" /\ flows[f].status = "granted"
    /\ "position" \in flows[f].calls /\ "reverse" \notin flows[f].calls
    /\ flows[f].pc \in {"L108", "L109"}

\* C15: a locate flow whose permission was granted and whose position read
\* failed ends with error = the message of the failure ("Could not get
\* location" when it has none) and loading = false, having issued neither the
\* reverse lookup nor the forecast request; it writes neither city nor
\* weather after its Start, so when no other flow overlapped city is what it
\* was before and weather is absent
C15_PositionFailure ==
    [][\A f \in FlowIds :
        /\ (PositionFailed(f) /\ running = f) => city' = city /\ weather' = weather
        /\ (PositionFailed(f) /\ Ends(f)) =>
            /\ error' = <<IF flows[f].err = "" THEN "Could not get location"
                           ELSE flows[f].err>>
            /\ flows[f].err \in RejectMsgs
            /\ loading' = FALSE
            /\ flows'[f].calls = {"permission", "position"}
            /\ (Solo(f) => city' = flows[f].city0 /\ weather' = <<>>)]_vars
C15_Witness ==
    \E f \in FlowIds :
        /\ flows[f].kind = "locate" /\ Done(f) /\ Solo(f)
        /\ flows[f].status = "granted"
        /\ flows[f].calls = {"permission", "position"}
        /\ error = <<"Could not get location">>
        /\ city = "Berlin" /\ flows[f].city0 = "Berlin"
        /\ weather = <<>> /\ loading = FALSE

\* C16: no cancellation and no generation guard.  A flow that comes back from
\* its forecast lookup writes the shared state whatever other flows have
\* been started or have settled meanwhile: right after the write (line 37
\* about to run) weather is its own snapshot when the lookup returned a body,
\* and error is its own message otherwise.  So a flow started earlier that
\* settles later leaves its result as the final one (the witness)
C16_NoGenerationGuard ==
    \A f \in FlowIds :
        At(f, "L37") =>
            IF flows[f].data # <<>>
            THEN weather = <<OwnSnapshot(f)>>
            ELSE error = <<IF flows[f].err = "" THEN "Unknown error"
                           ELSE flows[f].err>>
C16_Witness ==
    \E a, b \in FlowIds :
        /\ a < b /\ b \in flows[a].peers
        /\ Quiescent /\ lastSettle = a
        /\ flows[b].outcome.weather # <<>>
        /\ flows[a].outcome.weather # <<>>
        /\ weather = flows[a].outcome.weather
        /\ weather # flows[b].outcome.weather

\* C17 (as claimed): in every reachable state, the first render before
\* initialize-default included, exactly one of the loading indicator, the
\* error message and the weather snapshot is shown
C17_ExactlyOneShown == Render \in {"loading", "error", "weather"}

\* initialize-default has executed line 20
LoadingRaisedOnce == Started(1) /\ flows[1].pc \notin {"L65", "L20"}

\* C17 (amended): the render shows the loading indicator if loading, else
\* the error if present, else the weather if present, else nothing; nothing
\* is shown exactly in the states before initialize-default has raised
\* loading (the first render), and exactly one of the three in every state
\* after that
C17_OneShownOnceLoadingRaised ==
    /\ Render = "nothing" <=> ~LoadingRaisedOnce
    /\ Render = "loading" <=> loading = TRUE
    /\ Render = "error" <=> (loading = FALSE /\ error # <<>>)
    /\ Render = "weather" <=> (loading = FALSE /\ error = <<>> /\ weather # <<>>)
C17_Witness ==
    /\ LoadingRaisedOnce /\ running = 0
    /\ loading = FALSE /\ error # <<>> /\ weather # <<>>
    /\ Render = "error"

\* C18 (as claimed): whenever at least one flow is suspended in an await,
\* loading = true
C18_LoadingWhileSuspended ==
    (running = 0 /\ \E f \in FlowIds : Suspended(f)) => loading = TRUE

\* the place names flow f may have set: "Berlin" (line 65), the geocoded name
\* (line 54), a label of lines 99-104
LocateLabels == {PlaceLabel(pl) : pl \in Places} \cup {YourLocation}
NamesOf(f) ==
    IF flows[f].kind = "init" THEN {"Berlin"}
    ELSE IF flows[f].kind = "search" THEN {flows[f].name}
    ELSE LocateLabels

\* C19 (as claimed): when no flow is in flight and weather is present, city
\* is a place name set by a flow that wrote that weather snapshot
C19_CityMatchesWeather ==
    (Quiescent /\ weather # <<>>) =>
        \E f \in FlowIds :
            /\ flows[f].outcome.weather = weather
            /\ city \in NamesOf(f)

\* every flow so far has run alone: none was started while another was in
\* flight
Sequential == \A f \in FlowIds : Solo(f)
\* the flow that completed last in a sequential session
Latest(f) == RealFlow(f) /\ \A g \in FlowIds : g > f => ~RealFlow(g)

\* C20: when the flows have run strictly one after another, then after each
\* completes (and until the next is triggered) loading = false, exactly one
\* of weather and error is present, and it is what the flow that has just
\* completed wrote
C20_SequentialFlows ==
    (Quiescent /\ Sequential) =>
        \A f \in FlowIds :
            Latest(f) =>
                /\ loading = FALSE
                /\ (weather = <<>>) # (error = <<>>)
                /\ weather = flows[f].outcome.weather
                /\ error = flows[f].outcome.error
                /\ lastSettle = f
C20_Witness ==
    /\ Quiescent /\ Sequential
    /\ \E f, g \in FlowIds :
        /\ f < g /\ RealFlow(f) /\ Latest(g)
        /\ flows[f].outcome.error # <<>>
        /\ flows[g].outcome.weather # <<>>
        /\ weather = flows[g].outcome.weather /\ error = <<>>
        /\ loading = FALSE

====
